---- MODULE Spec2Model ----
(***************************************************************************)
(* Label generator with QR code for biochar and biomass samples            *)
(* (QrCode_Flet.py): the text normalisers, the two payload builders, the   *)
(* label layout and the form handlers that drive them.                     *)
(*                                                                         *)
(* Text is a sequence of characters; a character is a one-character        *)
(* string, and a non-ASCII character is written by its code point          *)
(* ("U+00F3" is o-acute), which is also what makes it two UTF-8 bytes.     *)
(***************************************************************************)
EXTENDS Integers, Sequences, FiniteSets, TLC

VARIABLES
    \* the form (src 291-351)
    tab, dd_format, edits,
    tf_sample_name, tf_biomass, tf_producer, tf_reactor, tf_prod_date,
    tf_pyroC, tf_res_min, tf_notes_bc,
    tf_bm_name, tf_origin, tf_coll_date, tf_notes_bm,
    \* what the handlers keep (src 354-380)
    current_png_bytes, current_png_name, qr_content_out, img_preview,
    snack_bar, file_save,
    \* how the last handler ended: "None", or the exception that left it
    raised,
    \* the font _load_font finds on this machine
    font_found,
    \* a call of one of the pure functions: its argument, its result, its position
    fn_in, fn_out, fn_pc

formVars == <<tab, dd_format, edits, tf_sample_name, tf_biomass, tf_producer, tf_reactor,
              tf_prod_date, tf_pyroC, tf_res_min, tf_notes_bc,
              tf_bm_name, tf_origin, tf_coll_date, tf_notes_bm>>
keptVars == <<current_png_bytes, current_png_name, qr_content_out, img_preview,
              snack_bar, file_save, raised, font_found>>
keptVars_data == <<current_png_bytes, current_png_name, qr_content_out, img_preview,
                   snack_bar, file_save>>
fnVars == <<fn_in, fn_out, fn_pc>>
vars == <<formVars, keptVars, fnVars>>

None == "None"
\* Python's None where a record may stand instead
Absent == [is |-> "None"]
IsNone(x) == x.is = "None"

-----------------------------------------------------------------------------
(* Characters and the str methods the code uses *)

LowerLetters == <<"a", "b", "c", "d", "e", "f", "g", "h", "i", "j", "k", "l", "m", "n", "o", "p", "q", "r", "s", "t", "u", "v", "w", "x", "y", "z", "U+00E9">>
UpperLetters == <<"A", "B", "C", "D", "E", "F", "G", "H", "I", "J", "K", "L", "M", "N", "O", "P", "Q", "R", "S", "T", "U", "V", "W", "X", "Y", "Z", "U+00C9">>
Digits == {"0", "1", "2", "3", "4", "5", "6", "7", "8", "9"}
Whitespace == {" ", "\t", "\n"}

\* the sharp s, a lowercase letter whose uppercase is the two letters SS
SharpS == "U+00DF"
IsLowerChar(c) == c = SharpS \/ \E i \in DOMAIN LowerLetters : LowerLetters[i] = c
IsUpperChar(c) == \E i \in DOMAIN UpperLetters : UpperLetters[i] = c
IsDigit(c) == c \in Digits
IsSpace(c) == c \in Whitespace

\* str.upper / str.lower, one character at a time
UpperChar(c) ==
    IF c # SharpS /\ IsLowerChar(c)
    THEN UpperLetters[CHOOSE i \in DOMAIN LowerLetters : LowerLetters[i] = c]
    ELSE c
LowerChar(c) ==
    IF IsUpperChar(c)
    THEN LowerLetters[CHOOSE i \in DOMAIN UpperLetters : UpperLetters[i] = c]
    ELSE c
RECURSIVE StrUpper(_)
StrUpper(s) ==
    IF s = <<>> THEN <<>>
    ELSE (IF s[1] = SharpS THEN <<"S", "S">> ELSE <<UpperChar(s[1])>>) \o StrUpper(Tail(s))
StrLower(s) == [i \in 1..Len(s) |-> LowerChar(s[i])]

\* str.isupper: at least one cased character and no lowercase one
StrIsUpper(s) ==
    /\ \E i \in 1..Len(s) : IsUpperChar(s[i])
    /\ \A i \in 1..Len(s) : ~IsLowerChar(s[i])

SetMin(S) == CHOOSE x \in S : \A y \in S : x <= y
SetMax(S) == CHOOSE x \in S : \A y \in S : x >= y

\* str.strip()
StrStrip(s) ==
    LET ink == {i \in 1..Len(s) : ~IsSpace(s[i])}
    IN  IF ink = {} THEN <<>> ELSE SubSeq(s, SetMin(ink), SetMax(ink))

\* str.split(): the maximal runs of non-whitespace, in order
RECURSIVE SplitFrom(_, _)
SplitFrom(s, i) ==
    IF i > Len(s) THEN <<>>
    ELSE IF IsSpace(s[i]) THEN SplitFrom(s, i + 1)
    ELSE LET stops == {j \in i..Len(s) : j = Len(s) \/ IsSpace(s[j + 1])}
             e == SetMin(stops)
         IN  <<SubSeq(s, i, e)>> \o SplitFrom(s, e + 1)
StrSplit(s) == SplitFrom(s, 1)

\* sep.join(parts)
RECURSIVE StrJoin(_, _)
StrJoin(sep, parts) ==
    IF parts = <<>> THEN <<>>
    ELSE IF Len(parts) = 1 THEN parts[1]
    ELSE parts[1] \o sep \o StrJoin(sep, Tail(parts))

\* str.replace(old, new) for one-character old and new
StrReplaceChar(s, old, new) == [i \in 1..Len(s) |-> IF s[i] = old THEN new ELSE s[i]]

\* str.splitlines() on "\n", the only line break of the alphabet
RECURSIVE SplitLinesFrom(_, _)
SplitLinesFrom(s, i) ==
    IF i > Len(s) THEN <<>>
    ELSE LET brk == {j \in i..Len(s) : s[j] = "\n"}
         IN  IF brk = {} THEN <<SubSeq(s, i, Len(s))>>
             ELSE <<SubSeq(s, i, SetMin(brk) - 1)>> \o SplitLinesFrom(s, SetMin(brk) + 1)
StrSplitLines(s) == SplitLinesFrom(s, 1)

\* every text of at most n characters of alphabet A
RECURSIVE TextsUpTo(_, _)
TextsUpTo(A, n) ==
    IF n = 0 THEN {<<>>}
    ELSE LET shorter == TextsUpTo(A, n - 1)
         IN  shorter \cup {Append(t, c) : t \in shorter, c \in A}

-----------------------------------------------------------------------------
(* _titlecase (src 60-70) *)

\* the test of line 66: a short all-caps token is taken for an acronym
IsAcronym_Len4(p) == Len(p) <= 4 /\ StrIsUpper(p)
IsAcronym(p) == Len(p) <= 3 /\ StrIsUpper(p)

\* line 69: p[:1].upper() + p[1:].lower()
Capitalize_KeepRest(p) == StrUpper(SubSeq(p, 1, 1)) \o SubSeq(p, 2, Len(p))
Capitalize(p) == StrUpper(SubSeq(p, 1, 1)) \o StrLower(SubSeq(p, 2, Len(p)))

TitleToken(p) == IF IsAcronym(p) THEN p ELSE Capitalize(p)

_titlecase(s) ==
    IF s = <<>> THEN s
    ELSE LET parts == StrSplit(s)
         IN  StrJoin(<<" ">>, [i \in 1..Len(parts) |-> TitleToken(parts[i])])

-----------------------------------------------------------------------------
(* _normalize_date (src 72-86) *)

\* re.fullmatch(r"\d{4}-\d{2}-\d{2}", s)
MatchesIso(s) ==
    /\ Len(s) = 10
    /\ \A i \in {1, 2, 3, 4, 6, 7, 9, 10} : IsDigit(s[i])
    /\ s[5] = "-" /\ s[8] = "-"

\* re.fullmatch(r"(\d{2})<sep>(\d{2})<sep>(\d{4})", s) for sep "/" (line 78) or "-" (line 82)
MatchesDmy(s, sep) ==
    /\ Len(s) = 10
    /\ \A i \in {1, 2, 4, 5, 7, 8, 9, 10} : IsDigit(s[i])
    /\ s[3] = sep /\ s[6] = sep

\* f"{yyyy}-{mm}-{dd}" of the three groups
DmyToIso_Swapped(s) == SubSeq(s, 7, 10) \o <<"-">> \o SubSeq(s, 1, 2) \o <<"-">> \o SubSeq(s, 4, 5)
DmyToIso(s) == SubSeq(s, 7, 10) \o <<"-">> \o SubSeq(s, 4, 5) \o <<"-">> \o SubSeq(s, 1, 2)

_normalize_date(s0) ==
    LET s == StrStrip(s0)
    IN  IF s = <<>> THEN <<>>
        ELSE IF MatchesIso(s) THEN s
        ELSE IF MatchesDmy(s, "/") THEN DmyToIso(s)
        ELSE IF MatchesDmy(s, "-") THEN DmyToIso(s)
        ELSE s

-----------------------------------------------------------------------------
(* The font (src 41-57, 176): the first candidate file that loads, at size 44, or  *)
(* PIL's built-in font.  Which one is a fact of the machine; of a font the layout  *)
(* reads the advance of a character and where its ink begins and ends below the     *)
(* drawing origin.                                                                 *)

Fonts ==
    { [name |-> "DejaVuSans-Bold-44", adv |-> 31, cap_top |-> 10, x_top |-> 18, base |-> 42, desc |-> 52],
      [name |-> "load_default", adv |-> 6, cap_top |-> 2, x_top |-> 4, base |-> 9, desc |-> 11] }

Descenders == {"g", "j", "p", "q", "y"}
XHeight == {"a", "c", "e", "m", "n", "o", "r", "s", "u", "v", "w", "x", "z"}
InkTop(font, c) == IF c \in XHeight \cup (Descenders \ {"j"}) THEN font.x_top ELSE font.cap_top
InkBottom(font, c) == IF c \in Descenders THEN font.desc ELSE font.base

\* draw.textbbox((0, 0), text, font=font): (left, top, right, bottom)
TextBBox(font, text) ==
    LET ink == {i \in 1..Len(text) : ~IsSpace(text[i])}
    IN  IF ink = {} THEN <<0, 0, Len(text) * font.adv, 0>>
        ELSE <<0,
               SetMin({InkTop(font, text[i]) : i \in ink}),
               Len(text) * font.adv,
               SetMax({InkBottom(font, text[i]) : i \in ink})>>

-----------------------------------------------------------------------------
(* The state after main() has built the page (src 291-380) *)

LABEL_PNG == <<"l", "a", "b", "e", "l", ".", "p", "n", "g">>
PREVIEW_SIDE == 420

\* line 219-221: the PNG of a transparent image of 2 by 2 pixels, in base64
_transparent_png_base64 ==
    [b64 |-> [is |-> "png", img |-> [error |-> None, width |-> 2, height |-> 2]]]

FormInit ==
    /\ tab = 0
    /\ dd_format = "Informacoes"
    /\ edits = 0
    /\ tf_sample_name = <<>> /\ tf_biomass = <<>> /\ tf_producer = <<>> /\ tf_reactor = <<>>
    /\ tf_prod_date = <<>> /\ tf_pyroC = <<>> /\ tf_res_min = <<>> /\ tf_notes_bc = <<>>
    /\ tf_bm_name = <<>> /\ tf_origin = <<>> /\ tf_coll_date = <<>> /\ tf_notes_bm = <<>>

KeptInit ==
    /\ current_png_bytes = Absent
    /\ current_png_name = LABEL_PNG
    /\ qr_content_out = <<>>
    /\ img_preview = [is |-> "Image", src_base64 |-> _transparent_png_base64,
                      width |-> PREVIEW_SIDE, height |-> PREVIEW_SIDE]
    /\ snack_bar = Absent
    /\ file_save = Absent
    /\ raised = None
    /\ font_found \in Fonts

FnIdle == fn_in = None /\ fn_out = None /\ fn_pc = "idle"

\* a call of a pure function: the argument is drawn, the page is as built
FnCall(inputs) ==
    /\ FormInit /\ KeptInit
    /\ fn_in \in inputs /\ fn_out = None /\ fn_pc = "call"

FnReturn(result) ==
    /\ fn_pc = "call"
    /\ fn_out' = result
    /\ fn_pc' = "done"
    /\ UNCHANGED <<fn_in, formVars, keptVars>>

-----------------------------------------------------------------------------
(* Calls of _normalize_date *)

MaxDateFree == 3

DateBodies ==
    {dd \o <<s1>> \o mm \o <<s2>> \o yy :
        dd \in {<<"0", "5">>, <<"3", "1">>}, mm \in {<<"0", "3">>, <<"1", "2">>}, yy \in {<<"2", "0", "2", "4">>, <<"1", "9", "9", "9">>}, s1 \in {"/", "-", "."}, s2 \in {"/", "-", "."}}
    \cup {yy \o <<s1>> \o mm \o <<s2>> \o dd :
        dd \in {<<"0", "5">>, <<"3", "1">>}, mm \in {<<"0", "3">>, <<"1", "2">>}, yy \in {<<"2", "0", "2", "4">>, <<"1", "9", "9", "9">>}, s1 \in {"/", "-", "."}, s2 \in {"/", "-", "."}}
    \cup {<<"M", "a", "r", "c", "h", " ", "5">>, <<"2", "0", "2", "4", "-", "0", "3", "-", "0", "5", " ", "0", "0", ":", "0", "0", ":", "0", "0">>}
    \cup TextsUpTo({"1", "-", "x", " "}, MaxDateFree)
DateInputs == {l \o b \o r : l \in {<<>>, <<" ">>}, b \in DateBodies, r \in {<<>>, <<" ">>}}

DateInit == FnCall(DateInputs)
call_normalize_date == FnReturn(_normalize_date(fn_in))
SpecDate == DateInit /\ [][call_normalize_date]_vars

\* s is written like shape: a digit where shape has "d", the same character elsewhere
HasShape(s, shape) ==
    /\ Len(s) = Len(shape)
    /\ \A i \in 1..Len(shape) : IF shape[i] = "d" THEN IsDigit(s[i]) ELSE s[i] = shape[i]
ShapeIso == <<"d", "d", "d", "d", "-", "d", "d", "-", "d", "d">>
ShapeDmySlash == <<"d", "d", "/", "d", "d", "/", "d", "d", "d", "d">>
ShapeDmyDash == <<"d", "d", "-", "d", "d", "-", "d", "d", "d", "d">>
\* s without the whitespace before its first and after its last other character
Trimmed(s) ==
    IF \A i \in 1..Len(s) : IsSpace(s[i]) THEN <<>>
    ELSE LET lo == CHOOSE i \in 1..Len(s) : ~IsSpace(s[i]) /\ \A j \in 1..(i - 1) : IsSpace(s[j])
             hi == CHOOSE i \in 1..Len(s) : ~IsSpace(s[i]) /\ \A j \in (i + 1)..Len(s) : IsSpace(s[j])
         IN  [k \in 1..(hi - lo + 1) |-> s[lo + k - 1]]
\* out is YYYY-MM-DD with the day, month and year digits of the DD?MM?YYYY text s
SameDateDigits(s, out) ==
    /\ Len(out) = 10
    /\ SubSeq(out, 1, 4) = SubSeq(s, 7, 10)
    /\ out[5] = "-"
    /\ SubSeq(out, 6, 7) = SubSeq(s, 4, 5)
    /\ out[8] = "-"
    /\ SubSeq(out, 9, 10) = SubSeq(s, 1, 2)
DateRule(s, out) ==
    IF HasShape(s, ShapeIso) THEN out = s
    ELSE IF HasShape(s, ShapeDmySlash) \/ HasShape(s, ShapeDmyDash) THEN SameDateDigits(s, out)
    ELSE out = s

\* C5 as stated: YYYY-MM-DD is returned unchanged, DD/MM/YYYY and DD-MM-YYYY become
\* YYYY-MM-DD with the same digits, the empty input gives the empty text, and every
\* other non-empty input is returned unchanged.
C5_AsStated == fn_pc = "done" => DateRule(fn_in, fn_out)

\* C5 amended: the input is first trimmed of surrounding whitespace, and the rule of
\* C5 holds of the trimmed text: an input that is empty once trimmed gives the empty
\* text, and any other text that is in none of the three formats is returned trimmed.
C5_DateNormalization == fn_pc = "done" => DateRule(Trimmed(fn_in), fn_out)

\* a DD/MM/YYYY date typed with a space around it has been converted
C5_Witness ==
    /\ fn_pc = "done"
    /\ fn_in = <<" ">> \o <<"0", "5", "/", "0", "3", "/", "2", "0", "2", "4">>
    /\ fn_out = <<"2", "0", "2", "4", "-", "0", "3", "-", "0", "5">>

-----------------------------------------------------------------------------
(* Calls of _titlecase *)

MaxTitleLen == 6

TitleAlphabet == {"a", "B", "1", " "}
TitleExamples == {<<"b", "i", "o", " ", "C", "H", "A", "R", " ", "s", "a", "m", "p", "l", "e">>, <<"w", "o", "o", "d", " ", "a", "s", "h">>, <<"a", "B", "\t", "\n", "B", "B", "B", "B", " ">>, <<"U+00DF", "a", " ", "B", "U+00DF">>, <<"U+00C9", " ", "U+00E9", "a", " ", "U+00DF">>}
TitleInputs == TextsUpTo(TitleAlphabet, MaxTitleLen) \cup TitleExamples

TitleInit == FnCall(TitleInputs)
call_titlecase == FnReturn(_titlecase(fn_in))
SpecTitle == TitleInit /\ [][call_titlecase]_vars

\* C6 as stated: "bio CHAR sample" gives "Bio CHAR Sample" and "wood ash" gives "Wood Ash".
C6_AsStated ==
    fn_pc = "done" =>
        /\ fn_in = <<"b", "i", "o", " ", "C", "H", "A", "R", " ", "s", "a", "m", "p", "l", "e">> => fn_out = <<"B", "i", "o", " ", "C", "H", "A", "R", " ", "S", "a", "m", "p", "l", "e">>
        /\ fn_in = <<"w", "o", "o", "d", " ", "a", "s", "h">> => fn_out = <<"W", "o", "o", "d", " ", "A", "s", "h">>

\* C6 amended: "bio CHAR sample" gives "Bio Char Sample" (CHAR has four letters, one
\* more than an acronym may have, so it is capitalised like any other word) and
\* "wood ash" gives "Wood Ash".
C6_TitlecaseExamples ==
    fn_pc = "done" =>
        /\ fn_in = <<"b", "i", "o", " ", "C", "H", "A", "R", " ", "s", "a", "m", "p", "l", "e">> => fn_out = <<"B", "i", "o", " ", "C", "h", "a", "r", " ", "S", "a", "m", "p", "l", "e">>
        /\ fn_in = <<"w", "o", "o", "d", " ", "a", "s", "h">> => fn_out = <<"W", "o", "o", "d", " ", "A", "s", "h">>

\* the first example has been title-cased
C6_Witness == fn_pc = "done" /\ fn_in = <<"b", "i", "o", " ", "C", "H", "A", "R", " ", "s", "a", "m", "p", "l", "e">> /\ Len(fn_out) = 15

\* where the tokens of s begin and end: the maximal runs of non-whitespace
TokenStarts(s) == {i \in 1..Len(s) : ~IsSpace(s[i]) /\ (i = 1 \/ IsSpace(s[i - 1]))}
TokenEnds(s) == {i \in 1..Len(s) : ~IsSpace(s[i]) /\ (i = Len(s) \/ IsSpace(s[i + 1]))}
Ranked(S, k) == CHOOSE x \in S : Cardinality({y \in S : y <= x}) = k
TokensOf(s) ==
    [k \in 1..Cardinality(TokenStarts(s)) |->
        LET b == Ranked(TokenStarts(s), k)
            e == Ranked(TokenEnds(s), k)
        IN  [j \in 1..(e - b + 1) |-> s[b + j - 1]]]
\* all caps: some letter is uppercase and none is lowercase (digits have no case)
AllCaps(t) ==
    /\ \E i \in 1..Len(t) : IsUpperChar(t[i])
    /\ \A i \in 1..Len(t) : ~IsLowerChar(t[i])
\* the uppercase of a letter: one letter, or SS for the sharp s
UpperOf(c) == IF c = SharpS THEN <<"S", "S">> ELSE <<UpperChar(c)>>
TokenRule(t, u) ==
    IF Len(t) <= 3 /\ AllCaps(t) THEN u = t
    ELSE u = UpperOf(t[1]) \o [i \in 1..(Len(t) - 1) |-> LowerChar(t[i + 1])]
SingleSpaced(r) ==
    /\ \A i \in 1..Len(r) : IsSpace(r[i]) => r[i] = " "
    /\ r # <<>> => (r[1] # " " /\ r[Len(r)] # " ")
    /\ \A i \in 1..(Len(r) - 1) : ~(r[i] = " " /\ r[i + 1] = " ")

\* C7: every whitespace-separated token is treated on its own: a token of at most 3
\* characters that is all caps is kept, any other token gets its first letter in
\* uppercase and the rest in lowercase, and the tokens are joined by single spaces, so
\* that leading, trailing and repeated whitespace is gone.
IsTitleCaseOf(text, out) ==
    /\ SingleSpaced(out)
    /\ Len(TokensOf(out)) = Len(TokensOf(text))
    /\ \A k \in 1..Len(TokensOf(text)) : TokenRule(TokensOf(text)[k], TokensOf(out)[k])
C7_TitlecaseTokens == fn_pc = "done" => IsTitleCaseOf(fn_in, fn_out)

\* two tokens, one an acronym and one not, with whitespace to collapse, have been joined
C7_Witness ==
    /\ fn_pc = "done"
    /\ fn_in = <<" ", "B", " ", " ", "a", "B">>
    /\ fn_out = <<"B", " ", "A", "b">>

-----------------------------------------------------------------------------
(* The QR symbol of a payload (src 165-173): qrcode.QRCode(version=None,           *)
(* error_correction=ERROR_CORRECT_M) with make(fit=True) takes the smallest        *)
(* version whose capacity holds the data and raises DataOverflowError past         *)
(* version 40.  The payloads of this model have no run of 20 digits or capitals,   *)
(* so the data is one 8-bit segment of the payload's UTF-8 bytes.                  *)

NonAscii == {SharpS, "U+00F3", "U+00EA", "U+00B0", "U+00E7", "U+00E3", "U+00E9", "U+00C9"}
Utf8Len(s) == Len(s) + Cardinality({i \in 1..Len(s) : s[i] \in NonAscii})

\* bytes an 8-bit segment may hold at level M, by version
QrByteCapacityM ==
    <<14, 26, 42, 62, 84, 106, 122, 152, 180, 213,
      251, 287, 331, 362, 412, 450, 504, 560, 624, 666,
      711, 779, 857, 911, 997, 1059, 1125, 1190, 1264, 1370,
      1452, 1538, 1628, 1722, 1809, 1911, 1989, 2099, 2213, 2331>>
QR_MAX_VERSION == 40

QrFits(payload) == Utf8Len(payload) <= QrByteCapacityM[QR_MAX_VERSION]
\* best_fit: the smallest version that holds the payload
QrVersion(payload) ==
    LET nbytes == Utf8Len(payload)
    IN  SetMin({v \in 1..QR_MAX_VERSION : nbytes <= QrByteCapacityM[v]})
\* side of the bitmap in pixels: 17 + 4 * version modules, the quiet zone, box_size each
QrNaturalSide(version, qr_box_size, border) == (17 + 4 * version + 2 * border) * qr_box_size

-----------------------------------------------------------------------------
(* textwrap.fill(text, width) (src 150), for text whose words have no hyphen *)

IsBlankText(s) == \A i \in 1..Len(s) : IsSpace(s[i])

\* the chunks of the text: its words and the runs of whitespace between them
RECURSIVE ChunksFrom(_, _)
ChunksFrom(s, i) ==
    IF i > Len(s) THEN <<>>
    ELSE LET same == {j \in i..Len(s) : \A k \in i..j : IsSpace(s[k]) = IsSpace(s[i])}
             e == SetMax(same)
             chunk == IF IsSpace(s[i]) THEN [k \in 1..(e - i + 1) |-> " "] ELSE SubSeq(s, i, e)
         IN  <<chunk>> \o ChunksFrom(s, e + 1)

RECURSIVE FillLine(_, _, _, _)
FillLine(chunks, width, cur, cur_len) ==
    IF chunks # <<>> /\ cur_len + Len(chunks[1]) <= width
    THEN FillLine(Tail(chunks), width, Append(cur, chunks[1]), cur_len + Len(chunks[1]))
    ELSE [line |-> cur, len |-> cur_len, rest |-> chunks]

\* TextWrapper._wrap_chunks with drop_whitespace and break_long_words: the line
\* that FillLine has filled takes the head of a chunk longer than the width, loses
\* a trailing blank chunk, and is kept unless nothing is left of it
BreakLong(f, width) ==
    IF f.rest # <<>> /\ Len(f.rest[1]) > width
    THEN [line |-> Append(f.line, SubSeq(f.rest[1], 1, width - f.len)),
          rest |-> <<SubSeq(f.rest[1], width - f.len + 1, Len(f.rest[1]))>> \o Tail(f.rest)]
    ELSE [line |-> f.line, rest |-> f.rest]
DropTrailingBlank(b) ==
    IF b.line # <<>> /\ IsBlankText(b.line[Len(b.line)])
    THEN [b EXCEPT !.line = SubSeq(b.line, 1, Len(b.line) - 1)]
    ELSE b

RECURSIVE WrapChunks(_, _, _)
WrapLine(b, width, have_lines) ==
    IF b.line # <<>>
    THEN <<StrJoin(<<>>, b.line)>> \o WrapChunks(b.rest, width, TRUE)
    ELSE WrapChunks(b.rest, width, have_lines)
WrapChunks(chunks, width, have_lines) ==
    IF chunks = <<>> THEN <<>>
    ELSE WrapLine(DropTrailingBlank(BreakLong(
             FillLine(IF have_lines /\ IsBlankText(chunks[1]) THEN Tail(chunks) ELSE chunks, width, <<>>, 0),
             width)), width, have_lines)

TextwrapFill(text, width) == StrJoin(<<"\n">>, WrapChunks(ChunksFrom(text, 1), width, FALSE))

-----------------------------------------------------------------------------
(* _wrap_title_lines (src 144-161) *)

PADDING == 30
LINE_GAP == 8
MIN_WRAP_CHARS == 18

\* int(x / y) of two integers, y > 0: the quotient cut towards zero
IntQuot(x, y) == IF x >= 0 THEN x \div y ELSE -((-x) \div y)

RECURSIVE SumSeq(_)
SumSeq(xs) == IF xs = <<>> THEN 0 ELSE xs[1] + SumSeq(Tail(xs))

\* line 160: sum(heights) + line_gap * (len(heights) - 1)
TitleBlockHeight_GapPerLine(heights, line_gap) == SumSeq(heights) + line_gap * Len(heights)
TitleBlockHeight(heights, line_gap) == SumSeq(heights) + line_gap * (Len(heights) - 1)

\* lines 146-152: the title on one line if it fits, else wrapped at est_chars
TitleLines(title_text, text_w, label_width_px, padding) ==
    LET q == IntQuot(Len(title_text) * (label_width_px - 2 * padding), text_w)
        est_chars == IF q > MIN_WRAP_CHARS THEN q ELSE MIN_WRAP_CHARS
    IN  IF text_w > label_width_px - 2 * padding
        THEN StrSplitLines(TextwrapFill(title_text, est_chars))
        ELSE <<title_text>>
\* lines 154-161: the height of each line and of the block
TitleBlock(title_lines, font_title, line_gap) ==
    [title_lines |-> title_lines,
     title_h |-> TitleBlockHeight([i \in 1..Len(title_lines) |->
                                      TextBBox(font_title, title_lines[i])[4]
                                      - TextBBox(font_title, title_lines[i])[2]], line_gap)]

_wrap_title_lines(title_text, font_title, label_width_px, padding, line_gap) ==
    TitleBlock(TitleLines(title_text, TextBBox(font_title, title_text)[3], label_width_px, padding),
               font_title, line_gap)

-----------------------------------------------------------------------------
(* render_label_pil (src 163-212) *)

\* lines 184-186: int(side * min(room / side, 1.0)).  The quotient and the product
\* are rounded to doubles, so when the bitmap is scaled the product is room itself
\* or the double just beside it, and int() cuts it to room or to one less in size:
\* fp_loss, 0 or 1, is which of the two the arithmetic gives.
ScaledSide_NoClamp(side, room, fp_loss) ==
    IF room > 0 THEN room - fp_loss ELSE room + fp_loss
ScaledSide(side, room, fp_loss) ==
    IF room >= side THEN side
    ELSE IF room > 0 THEN room - fp_loss
    ELSE IF room = 0 THEN 0
    ELSE room + fp_loss

\* lines 198-205: where each title line is drawn, and the cursor after the last one
RECURSIVE DrawTitle(_, _, _, _, _, _)
DrawLine(text, bbox, y, label_width_px, below) ==
    [boxes |-> <<[text |-> text, x |-> (label_width_px - (bbox[3] - bbox[1])) \div 2, y |-> y,
                  w |-> bbox[3] - bbox[1], h |-> bbox[4] - bbox[2]]>> \o below.boxes,
     y |-> below.y]
DrawTitle(title_lines, i, y, font, label_width_px, line_gap) ==
    IF i > Len(title_lines) THEN [boxes |-> <<>>, y |-> y]
    ELSE DrawLine(title_lines[i], TextBBox(font, title_lines[i]), y, label_width_px,
                  DrawTitle(title_lines, i + 1,
                            y + (TextBBox(font, title_lines[i])[4] - TextBBox(font, title_lines[i])[2])
                              + (IF i < Len(title_lines) THEN line_gap ELSE 0),
                            font, label_width_px, line_gap))

\* lines 193-211: the canvas, the title drawn on it and the QR pasted beneath
Compose(drawn, title_h, qr_payload, side, new_w, new_h, label_width_px, padding) ==
    [error |-> None,
     width |-> label_width_px, height |-> padding + title_h + padding + new_h + padding,
     title |-> drawn.boxes,
     qr_data |-> qr_payload, qr_side |-> side,
     qr_x |-> (label_width_px - new_w) \div 2, qr_y |-> drawn.y + padding,
     qr_w |-> new_w, qr_h |-> new_h]

\* lines 175-211, the QR bitmap of lines 165-173 made and side pixels wide and high
LayOut(wrapped, qr_payload, side, new_w, new_h, label_width_px, padding, line_gap, font_title) ==
    IF new_w < 1 \/ new_h < 1
    THEN [error |-> "ValueError"]   \* Image.resize: height and width must be > 0
    ELSE Compose(DrawTitle(wrapped.title_lines, 1, padding, font_title, label_width_px, line_gap),
                 wrapped.title_h, qr_payload, side, new_w, new_h, label_width_px, padding)

\* lines 181-186: the bitmap is scaled, width and height by the one factor
Scale(title_text, qr_payload, side, label_width_px, padding, line_gap, font_title, fp_loss) ==
    LayOut(_wrap_title_lines(title_text, font_title, label_width_px, padding, line_gap),
           qr_payload, side,
           ScaledSide(side, label_width_px - 2 * padding, fp_loss),
           ScaledSide(side, label_width_px - 2 * padding, fp_loss),
           label_width_px, padding, line_gap, font_title)

render_label_pil(title_left, title_right, qr_payload, label_width_px, qr_box_size, border, font_title, fp_loss) ==
    IF ~QrFits(qr_payload) THEN [error |-> "DataOverflowError"]
    ELSE Scale(IF title_right # <<>> THEN title_left \o <<" ", "|", " ">> \o title_right ELSE title_left,
               qr_payload, QrNaturalSide(QrVersion(qr_payload), qr_box_size, border),
               label_width_px, PADDING, LINE_GAP, font_title, fp_loss)

FpLoss == {0, 1}

-----------------------------------------------------------------------------
(* Calls of render_label_pil *)

\* payloads that need version 1, 2, 13, 14 and 40, and one too long for any version
RenderPayloadSizes ==
    {1, QrByteCapacityM[1] + 1, QrByteCapacityM[12] + 1, QrByteCapacityM[13] + 1,
     QrByteCapacityM[QR_MAX_VERSION], QrByteCapacityM[QR_MAX_VERSION] + 1}

\* the titles are as generate_preview passes them: title-cased, so without
\* surrounding or repeated whitespace, and the left one never empty; the font is
\* the one _load_font has found
RenderInputs ==
    [title_left : {<<"X">>, <<"E", "u", "c", "a", "l", "y", "p", "t", "u", "s", " ", "B", "a", "r", "k">>, <<"P", "i", "n", "u", "s", " ", "E", "l", "l", "i", "o", "t", "t", "i", "i", " ", "S", "a", "w", "d", "u", "s", "t", " ", "P", "e", "l", "l", "e", "t", "s", " ", "B", "a", "t", "c", "h">>, <<"L", "i", "g", "n", "o", "c", "e", "l", "l", "u", "l", "o", "s", "i", "c", "r", "e", "s", "i", "d", "u", "e", " ", "F", "r", "o", "m", " ", "M", "i", "l", "l">>}, title_right : {<<>>, <<"F", "a", "r", "m", " ", "A">>, <<"C", "o", "o", "p", "e", "r", "a", "t", "i", "v", "a", " ", "A", "g", "r", "i", "c", "o", "l", "a", " ", "D", "o", " ", "V", "a", "l", "e">>},
     qr_payload : {[i \in 1..n |-> "x"] : n \in RenderPayloadSizes},
     label_width_px : {60, 61, 300, 800, 2000}, qr_box_size : {1, 10}, border : {0, 4},
     fp_loss : FpLoss]

RenderInit == FnCall(RenderInputs)
call_render_label_pil ==
    FnReturn(render_label_pil(fn_in.title_left, fn_in.title_right, fn_in.qr_payload,
                              fn_in.label_width_px, fn_in.qr_box_size, fn_in.border,
                              font_found, fn_in.fp_loss))
SpecRender == RenderInit /\ [][call_render_label_pil]_vars

Rendered == fn_pc = "done" /\ fn_out.error = None

\* C9: the QR is never drawn larger than its natural size; it is scaled down only when
\* its natural width exceeds the canvas width less two paddings, by one factor for width
\* and height, to fit in that room; and it is centred: its left offset is
\* floor((canvas width - drawn width) / 2).
C9_QrNeverUpscaled ==
    Rendered =>
        LET room == fn_in.label_width_px - 2 * 30
            natural == fn_out.qr_side
        IN  /\ fn_out.qr_w <= natural /\ fn_out.qr_h <= natural
            /\ natural <= room => (fn_out.qr_w = natural /\ fn_out.qr_h = natural)
            /\ natural > room => (fn_out.qr_w <= room /\ fn_out.qr_h = fn_out.qr_w)
            /\ 2 * fn_out.qr_x <= fn_in.label_width_px - fn_out.qr_w
            /\ fn_in.label_width_px - fn_out.qr_w <= 2 * fn_out.qr_x + 1

\* a bitmap wider than the room of its canvas has been scaled down and centred
C9_Witness ==
    /\ Rendered
    /\ fn_in.label_width_px = 800 /\ fn_out.qr_side = 770
    /\ fn_out.qr_w = 740 /\ fn_out.qr_x = 30

\* C10: the image is as wide as the canvas asked for and as high as padding + title
\* block + padding + drawn QR + padding, which is more than the QR alone; the QR is
\* pasted one padding below the last title line, lies inside the canvas and has one
\* padding of space beneath it.
C10_CanvasLayout ==
    Rendered =>
        LET n == Len(fn_out.title)
            first == fn_out.title[1]
            last == fn_out.title[n]
            block == (last.y + last.h) - first.y
        IN  /\ n >= 1
            /\ fn_out.width = fn_in.label_width_px
            /\ first.y = 30
            /\ fn_out.height = 30 + block + 30 + fn_out.qr_h + 30
            /\ fn_out.height > fn_out.qr_h
            /\ fn_out.qr_y = last.y + last.h + 30
            /\ fn_out.qr_x >= 0 /\ fn_out.qr_x + fn_out.qr_w <= fn_out.width
            /\ fn_out.qr_y >= 0 /\ fn_out.qr_y + fn_out.qr_h = fn_out.height - 30

\* a title wrapped into several lines has been drawn above a scaled QR
C10_Witness ==
    /\ Rendered
    /\ Len(fn_out.title) >= 3
    /\ fn_out.qr_w < fn_out.qr_side

-----------------------------------------------------------------------------
(* float(text) and the text of a float (src 424, 428; 97-98; 123-124).  A float  *)
(* is kept as its decimal digits, which is exact for the short decimals of this   *)
(* model (no exponent, no underscore, 1e-4 <= |x| < 1e16 or zero).                *)

FloatZero == [kind |-> "num", neg |-> FALSE, int |-> <<"0">>, frac |-> <<"0">>]

AllDigits(s) == \A i \in 1..Len(s) : IsDigit(s[i])
\* digits without their leading zeros, "0" if nothing is left
IntDigits(s) ==
    LET nz == {i \in 1..Len(s) : s[i] # "0"}
    IN  IF nz = {} THEN <<"0">> ELSE SubSeq(s, SetMin(nz), Len(s))
\* digits without their trailing zeros, "0" if nothing is left
FracDigits(s) ==
    LET nz == {i \in 1..Len(s) : s[i] # "0"}
    IN  IF nz = {} THEN <<"0">> ELSE SubSeq(s, 1, SetMax(nz))

\* float(text): the float, or the ValueError it raises
FloatOrRaise(text) ==
    LET s == StrStrip(text)
        signed == s # <<>> /\ s[1] \in {"+", "-"}
        neg == s # <<>> /\ s[1] = "-"
        body == IF signed THEN Tail(s) ELSE s
        word == StrLower(body)
        dots == {i \in 1..Len(body) : body[i] = "."}
    IN  IF word = <<"n", "a", "n">> THEN [kind |-> "nan"]
        ELSE IF word = <<"i", "n", "f">> \/ word = <<"i", "n", "f", "i", "n", "i", "t", "y">> THEN [kind |-> "inf", neg |-> neg]
        ELSE IF body = <<>> THEN [kind |-> "ValueError"]
        ELSE IF dots = {}
             THEN IF AllDigits(body)
                  THEN [kind |-> "num", neg |-> neg, int |-> IntDigits(body), frac |-> <<"0">>]
                  ELSE [kind |-> "ValueError"]
        ELSE IF Cardinality(dots) > 1 THEN [kind |-> "ValueError"]
        ELSE LET d == SetMin(dots)
                 ip == SubSeq(body, 1, d - 1)
                 fp == SubSeq(body, d + 1, Len(body))
             IN  IF AllDigits(ip) /\ AllDigits(fp) /\ (ip # <<>> \/ fp # <<>>)
                 THEN [kind |-> "num", neg |-> neg, int |-> IntDigits(ip), frac |-> FracDigits(fp)]
                 ELSE [kind |-> "ValueError"]

\* lines 423-430: float((value or "0").replace(",", ".")), 0.0 on ValueError
NumberField_Uncaught(value) ==
    FloatOrRaise(StrReplaceChar(IF value = <<>> THEN <<"0">> ELSE value, ",", "."))
NumberField(value) ==
    LET r == FloatOrRaise(StrReplaceChar(IF value = <<>> THEN <<"0">> ELSE value, ",", "."))
    IN  IF r.kind = "ValueError" THEN FloatZero ELSE r

\* repr(x), which is also str(x) and f"{x}"
FloatRepr(x) ==
    IF x.kind = "nan" THEN <<"n", "a", "n">>
    ELSE IF x.kind = "inf" THEN (IF x.neg THEN <<"-">> ELSE <<>>) \o <<"i", "n", "f">>
    ELSE (IF x.neg THEN <<"-">> ELSE <<>>) \o x.int \o <<".">> \o x.frac

\* json.dumps of a float (allow_nan is left at True)
JsonFloat(x) ==
    IF x.kind = "nan" THEN <<"N", "a", "N">>
    ELSE IF x.kind = "inf" THEN (IF x.neg THEN <<"-">> ELSE <<>>) \o <<"I", "n", "f", "i", "n", "i", "t", "y">>
    ELSE FloatRepr(x)

-----------------------------------------------------------------------------
(* json.dumps(obj, ensure_ascii=False) of a flat dict (src 90-111) *)

\* one character inside a JSON string: the quote, the backslash and the control
\* characters are escaped, everything else, non-ASCII included, is written as it is
JsonEscapeChar(c) ==
    IF c = "\"" THEN <<"\\", "\"">>
    ELSE IF c = "\\" THEN <<"\\", "\\">>
    ELSE IF c = "\n" THEN <<"\\", "n">>
    ELSE IF c = "\t" THEN <<"\\", "t">>
    ELSE <<c>>

RECURSIVE JsonEscape(_, _, _)
JsonEscape(s, lo, hi) ==
    IF lo > hi THEN <<>>
    ELSE IF lo = hi THEN JsonEscapeChar(s[lo])
    ELSE LET mid == (lo + hi) \div 2
         IN  JsonEscape(s, lo, mid) \o JsonEscape(s, mid + 1, hi)

JsonString(s) == <<"\"">> \o JsonEscape(s, 1, Len(s)) \o <<"\"">>

JsonValue(v) == IF v.t = "str" THEN JsonString(v.v) ELSE JsonFloat(v.v)

\* the items of the dict in insertion order, ", " between items and ": " after a key
RECURSIVE JsonItems(_)
JsonItems(items) ==
    IF items = <<>> THEN <<>>
    ELSE JsonString(items[1][1]) \o <<":", " ">> \o JsonValue(items[1][2])
         \o (IF Len(items) > 1 THEN <<",", " ">> ELSE <<>>) \o JsonItems(Tail(items))

JsonDumps(items) == <<"{">> \o JsonItems(items) \o <<"}">>

Str(s) == [t |-> "str", v |-> s]
Num(x) == [t |-> "float", v |-> x]

-----------------------------------------------------------------------------
(* The payloads (src 24, 88-142) *)

SCHEMA == <<"a", "r", "r", "a", "k", "i", "s", ".", "l", "a", "b", ".", "q", "r", "l", "a", "b", "e", "l", ".", "v", "2">>

K_kind == <<"k", "i", "n", "d">>
K_schema == <<"s", "c", "h", "e", "m", "a">>
K_sample_name == <<"s", "a", "m", "p", "l", "e", "_", "n", "a", "m", "e">>
K_producer == <<"p", "r", "o", "d", "u", "c", "e", "r">>
K_biomass == <<"b", "i", "o", "m", "a", "s", "s">>
K_reactor_type == <<"r", "e", "a", "c", "t", "o", "r", "_", "t", "y", "p", "e">>
K_pyro_temp_C == <<"p", "y", "r", "o", "_", "t", "e", "m", "p", "_", "C">>
K_residence_time_min == <<"r", "e", "s", "i", "d", "e", "n", "c", "e", "_", "t", "i", "m", "e", "_", "m", "i", "n">>
K_production_date == <<"p", "r", "o", "d", "u", "c", "t", "i", "o", "n", "_", "d", "a", "t", "e">>
K_notes == <<"n", "o", "t", "e", "s">>
K_biomass_name == <<"b", "i", "o", "m", "a", "s", "s", "_", "n", "a", "m", "e">>
K_origin == <<"o", "r", "i", "g", "i", "n">>
K_collection_date == <<"c", "o", "l", "l", "e", "c", "t", "i", "o", "n", "_", "d", "a", "t", "e">>
V_biochar == <<"b", "i", "o", "c", "h", "a", "r">>
V_biomass == <<"b", "i", "o", "m", "a", "s", "s">>

make_payload_biochar(sample_name, producer, biomass, reactor_type, pyro_temp_c, residence_time_min, production_date, notes) ==
    JsonDumps(<< <<K_kind, Str(V_biochar)>>,
                 <<K_schema, Str(SCHEMA)>>,
                 <<K_sample_name, Str(sample_name)>>,
                 <<K_producer, Str(producer)>>,
                 <<K_biomass, Str(biomass)>>,
                 <<K_reactor_type, Str(reactor_type)>>,
                 <<K_pyro_temp_C, Num(pyro_temp_c)>>,
                 <<K_residence_time_min, Num(residence_time_min)>>,
                 <<K_production_date, Str(_normalize_date(production_date))>>,
                 <<K_notes, Str(notes)>> >>)

make_payload_biomass(biomass_name, origin, collection_date, notes) ==
    JsonDumps(<< <<K_kind, Str(V_biomass)>>,
                 <<K_schema, Str(SCHEMA)>>,
                 <<K_biomass_name, Str(biomass_name)>>,
                 <<K_origin, Str(origin)>>,
                 <<K_collection_date, Str(_normalize_date(collection_date))>>,
                 <<K_notes, Str(notes)>> >>)

L_sample_name == <<"N", "o", "m", "e", " ", "d", "a", " ", "a", "m", "o", "s", "t", "r", "a", ":", " ">>
L_biomass == <<"B", "i", "o", "m", "a", "s", "s", "a", ":", " ">>
L_producer == <<"Q", "u", "e", "m", " ", "p", "r", "o", "d", "u", "z", "i", "u", ":", " ">>
L_reactor_type == <<"T", "i", "p", "o", " ", "d", "e", " ", "r", "e", "a", "t", "o", "r", ":", " ">>
L_pyro_temp_C == <<"T", "e", "m", "p", "e", "r", "a", "t", "u", "r", "a", " ", "d", "e", " ", "p", "i", "r", "U+00F3", "l", "i", "s", "e", " ", "(", "U+00B0", "C", ")", ":", " ">>
L_residence_time_min == <<"T", "e", "m", "p", "o", " ", "d", "e", " ", "r", "e", "s", "i", "d", "U+00EA", "n", "c", "i", "a", " ", "(", "m", "i", "n", ")", ":", " ">>
L_production_date == <<"D", "a", "t", "a", " ", "d", "e", " ", "p", "r", "o", "d", "u", "U+00E7", "U+00E3", "o", ":", " ">>
L_notes == <<"N", "o", "t", "a", "s", ":", " ">>
L_biomass_name == <<"N", "o", "m", "e", " ", "d", "a", " ", "b", "i", "o", "m", "a", "s", "s", "a", ":", " ">>
L_origin == <<"O", "r", "i", "g", "e", "m", ":", " ">>
L_collection_date == <<"D", "a", "t", "a", " ", "d", "e", " ", "c", "o", "l", "e", "t", "a", ":", " ">>

make_text_biochar_EmptyDateLine(sample_name, producer, biomass, reactor_type, pyro_temp_c, residence_time_min, production_date0, notes) ==
    LET production_date == _normalize_date(production_date0)
        lines == << L_sample_name \o sample_name,
                    L_biomass \o biomass,
                    L_producer \o producer,
                    L_reactor_type \o reactor_type,
                    L_pyro_temp_C \o FloatRepr(pyro_temp_c),
                    L_residence_time_min \o FloatRepr(residence_time_min) >>
                 \o <<L_production_date \o production_date>>
                 \o (IF notes # <<>> THEN <<L_notes \o notes>> ELSE <<>>)
    IN  StrJoin(<<"\n">>, lines)
make_text_biochar(sample_name, producer, biomass, reactor_type, pyro_temp_c, residence_time_min, production_date0, notes) ==
    LET production_date == _normalize_date(production_date0)
        lines == << L_sample_name \o sample_name,
                    L_biomass \o biomass,
                    L_producer \o producer,
                    L_reactor_type \o reactor_type,
                    L_pyro_temp_C \o FloatRepr(pyro_temp_c),
                    L_residence_time_min \o FloatRepr(residence_time_min) >>
                 \o (IF production_date # <<>> THEN <<L_production_date \o production_date>> ELSE <<>>)
                 \o (IF notes # <<>> THEN <<L_notes \o notes>> ELSE <<>>)
    IN  StrJoin(<<"\n">>, lines)

make_text_biomass(biomass_name, origin, collection_date0, notes) ==
    LET collection_date == _normalize_date(collection_date0)
        lines == << L_biomass_name \o biomass_name,
                    L_origin \o origin >>
                 \o (IF collection_date # <<>> THEN <<L_collection_date \o collection_date>> ELSE <<>>)
                 \o (IF notes # <<>> THEN <<L_notes \o notes>> ELSE <<>>)
    IN  StrJoin(<<"\n">>, lines)

-----------------------------------------------------------------------------
(* The handlers of the page (src 384-502) *)

LABEL_WIDTH_PX == 800
QR_BOX_SIZE == 10
QR_BORDER == 4

MSG_BIOCHAR_REQUIRED == "Nome da amostra e obrigatorio para Biochar."
MSG_BIOMASS_REQUIRED == "Nome da biomassa e Origem sao obrigatorios para Biomassa."
MSG_SAVED == "Salvo em: <path>"
MSG_SAVE_ERROR == "Erro ao salvar: <ex>"
MSG_COPIED == "Conteudo copiado."

\* snack (src 394-398): green if ok, amber if warn, red otherwise
snack(msg, ok, warn) ==
    [is |-> "SnackBar", msg |-> msg, open |-> TRUE,
     bgcolor |-> IF ok THEN "GREEN" ELSE IF warn THEN "AMBER" ELSE "RED"]

pil_to_png_bytes(img) == [is |-> "png", img |-> img]

\* set_preview (src 400-404), the zoom slider left at 1.0
set_preview(png_bytes) ==
    [is |-> "Image", src_base64 |-> [b64 |-> png_bytes], width |-> PREVIEW_SIDE, height |-> PREVIEW_SIDE]

\* lines 440, 460: f"{title_left.replace(' ', '_')}_label.png"
PngName(title_left) == StrReplaceChar(title_left, " ", "_") \o <<"_", "l", "a", "b", "e", "l", ".", "p", "n", "g">>

\* lines 416 and 447: the tests of the required fields
BiocharRequiredMissing(sn) == sn = <<>>
BiomassRequiredMissing_NameOnly(bn, og) == bn = <<>>
BiomassRequiredMissing(bn, og) == bn = <<>> \/ og = <<>>

\* what a handler has before it: the fields generate_preview may rewrite and what
\* the page keeps, with no exception raised
Before ==
    [sample_name |-> tf_sample_name, biomass |-> tf_biomass, producer |-> tf_producer,
     reactor |-> tf_reactor, bm_name |-> tf_bm_name, origin |-> tf_origin,
     png_bytes |-> current_png_bytes, png_name |-> current_png_name,
     qr_content |-> qr_content_out, img_preview |-> img_preview,
     snack_bar |-> snack_bar, raised |-> None]

\* lines 463-467: the image is encoded, shown and kept with its content, unless
\* render_label_pil raised
Keep(named, pil_img, payload) ==
    IF pil_img.error # None
    THEN [named EXCEPT !.raised = pil_img.error]
    ELSE [named EXCEPT !.png_bytes = pil_to_png_bytes(pil_img),
                       !.img_preview = set_preview(pil_to_png_bytes(pil_img)),
                       !.qr_content = payload]

\* lines 462-467, after the file name of lines 440 and 460 is set
RenderAndKeep(o, title_left, title_right, payload, fp_loss) ==
    Keep([o EXCEPT !.png_name = PngName(title_left)],
         render_label_pil(title_left, title_right, payload,
                          LABEL_WIDTH_PX, QR_BOX_SIZE, QR_BORDER, font_found, fp_loss),
         payload)

\* generate_preview (src 406-467) on the Biochar tab
GenerateBiochar(fp_loss) ==
    LET cased == [Before EXCEPT !.sample_name = _titlecase(tf_sample_name),
                                !.biomass = _titlecase(tf_biomass),
                                !.producer = _titlecase(tf_producer),
                                !.reactor = _titlecase(tf_reactor)]
        sn == StrStrip(cased.sample_name)
        bm == StrStrip(cased.biomass)
        producer == StrStrip(cased.producer)
        reactor_type == StrStrip(cased.reactor)
        prod_date == _normalize_date(tf_prod_date)
        pyroC == NumberField(tf_pyroC)
        res_min == NumberField(tf_res_min)
        notes == tf_notes_bc
        payload ==
            IF dd_format = "Informacoes"
            THEN make_text_biochar(sn, producer, bm, reactor_type, pyroC, res_min, prod_date, notes)
            ELSE make_payload_biochar(sn, producer, bm, reactor_type, pyroC, res_min, prod_date, notes)
    IN  IF BiocharRequiredMissing(sn)
        THEN [cased EXCEPT !.snack_bar = snack(MSG_BIOCHAR_REQUIRED, FALSE, FALSE)]
        ELSE IF pyroC.kind = "ValueError" \/ res_min.kind = "ValueError"
        THEN [cased EXCEPT !.raised = "ValueError"]
        ELSE RenderAndKeep(cased, _titlecase(sn), _titlecase(bm), payload, fp_loss)

\* generate_preview on the Biomassa tab
GenerateBiomass(fp_loss) ==
    LET cased == [Before EXCEPT !.bm_name = _titlecase(tf_bm_name),
                                !.origin = _titlecase(tf_origin)]
        bn == StrStrip(cased.bm_name)
        og == StrStrip(cased.origin)
        coll_date == _normalize_date(tf_coll_date)
        notes == tf_notes_bm
        payload ==
            IF dd_format = "Informacoes"
            THEN make_text_biomass(bn, og, coll_date, notes)
            ELSE make_payload_biomass(bn, og, coll_date, notes)
    IN  IF BiomassRequiredMissing(bn, og)
        THEN [cased EXCEPT !.snack_bar = snack(MSG_BIOMASS_REQUIRED, FALSE, FALSE)]
        ELSE RenderAndKeep(cased, _titlecase(bn), _titlecase(og), payload, fp_loss)

Generate(fp_loss) ==
    IF tab = 0 THEN GenerateBiochar(fp_loss) ELSE GenerateBiomass(fp_loss)

\* the handler leaves the page as o says
Leave(o) ==
    /\ tf_sample_name' = o.sample_name /\ tf_biomass' = o.biomass
    /\ tf_producer' = o.producer /\ tf_reactor' = o.reactor
    /\ tf_bm_name' = o.bm_name /\ tf_origin' = o.origin
    /\ current_png_bytes' = o.png_bytes /\ current_png_name' = o.png_name
    /\ qr_content_out' = o.qr_content /\ img_preview' = o.img_preview
    /\ snack_bar' = o.snack_bar /\ raised' = o.raised
    /\ UNCHANGED <<tab, dd_format, edits, tf_prod_date, tf_pyroC, tf_res_min, tf_notes_bc,
                   tf_coll_date, tf_notes_bm, font_found, fnVars>>

\* "Gerar previa"
generate_preview ==
    \E fp_loss \in FpLoss : \E o \in {Generate(fp_loss)} :
        /\ Leave(o)
        /\ UNCHANGED file_save

\* "Salvar PNG" (src 469-486): generates first if there is no image yet, then opens
\* the save dialog with the current file name
save_png ==
    \E fp_loss \in FpLoss :
        \E o \in {IF IsNone(current_png_bytes) THEN Generate(fp_loss) ELSE Before} :
            /\ Leave(o)
            /\ file_save' = IF o.raised = None /\ ~IsNone(o.png_bytes)
                            THEN [is |-> "dialog", file_name |-> o.png_name]
                            ELSE file_save

\* _save_result (src 476-483): the dialog is answered with no path, or with a path
\* to which the bytes the page holds now are written, or cannot be written.  The
\* file is outside the page; of the write the page keeps the notice.
_save_result ==
    /\ ~IsNone(file_save)
    /\ \E answer \in {"no path", "written", "OSError"} :
        Leave([Before EXCEPT !.snack_bar =
                  IF answer = "written" THEN snack(MSG_SAVED, TRUE, FALSE)
                  ELSE IF answer = "OSError" THEN snack(MSG_SAVE_ERROR, FALSE, FALSE)
                  ELSE snack_bar])
    /\ file_save' = Absent

\* "Copiar conteudo" (src 488-494): generates first if no content is shown; the
\* clipboard is outside the page, and of the copy the page keeps the notice
copy_qr_content ==
    \E fp_loss \in FpLoss :
        \E o \in {IF qr_content_out = <<>> THEN Generate(fp_loss) ELSE Before} :
            LET copied == o.raised = None /\ o.qr_content # <<>>
            IN  /\ Leave(IF copied THEN [o EXCEPT !.snack_bar = snack(MSG_COPIED, FALSE, TRUE)] ELSE o)
                /\ UNCHANGED file_save

-----------------------------------------------------------------------------
(* The user at the form (src 291-351, 578-582) *)

MaxEdits == 2
MaxNotesLen == 2400

FormatChoices == {"Informacoes", "json"}

\* what the user types into a field; the fields left out here are typed into in
\* the form specification below
Typed(field) ==
    CASE field = "tf_sample_name" -> {<<" ">>, <<"w", "o", "o", "d", " ", "a", "s", "h">>}
      [] field = "tf_biomass"     -> {<<"p", "i", "n", "e">>}
      [] field = "tf_notes_bc"    -> {[i \in 1..MaxNotesLen |-> "x"]}
      [] field = "tf_bm_name"     -> {<<"b", "a", "r", "k">>}
      [] field = "tf_origin"      -> {<<"f", "a", "r", "m", " ", "a">>}
      [] field = "tf_notes_bm"    -> {[i \in 1..MaxNotesLen |-> "x"]}
TypedFields ==
    {"tf_sample_name", "tf_biomass", "tf_notes_bc", "tf_bm_name", "tf_origin", "tf_notes_bm"}
\* str(e.control.value) of a date picker: a date, or a datetime at midnight
PickedDates == {<<"2", "0", "2", "4", "-", "0", "3", "-", "0", "5">>, <<"2", "0", "2", "4", "-", "0", "3", "-", "0", "5", " ", "0", "0", ":", "0", "0", ":", "0", "0">>}

\* a step of the user, in which no handler of the page runs
NoHandler ==
    /\ raised' = None
    /\ UNCHANGED <<keptVars_data, font_found, fnVars>>

user_types ==
    /\ edits < MaxEdits
    /\ \E field \in TypedFields : \E value \in Typed(field) :
        /\ tf_sample_name' = IF field = "tf_sample_name" THEN value ELSE tf_sample_name
        /\ tf_biomass' = IF field = "tf_biomass" THEN value ELSE tf_biomass
        /\ tf_notes_bc' = IF field = "tf_notes_bc" THEN value ELSE tf_notes_bc
        /\ tf_bm_name' = IF field = "tf_bm_name" THEN value ELSE tf_bm_name
        /\ tf_origin' = IF field = "tf_origin" THEN value ELSE tf_origin
        /\ tf_notes_bm' = IF field = "tf_notes_bm" THEN value ELSE tf_notes_bm
    /\ edits' = edits + 1
    /\ UNCHANGED <<tab, dd_format, tf_producer, tf_reactor, tf_pyroC, tf_res_min,
                   tf_prod_date, tf_coll_date>>
    /\ NoHandler

\* dp_prod and dp_coll (src 322-326, 344-348)
date_picked ==
    /\ edits < MaxEdits
    /\ \E value \in PickedDates :
        IF tab = 0
        THEN tf_prod_date' = value /\ UNCHANGED tf_coll_date
        ELSE tf_coll_date' = value /\ UNCHANGED tf_prod_date
    /\ edits' = edits + 1
    /\ UNCHANGED <<tab, dd_format, tf_sample_name, tf_biomass, tf_producer, tf_reactor,
                   tf_pyroC, tf_res_min, tf_notes_bc, tf_bm_name, tf_origin, tf_notes_bm>>
    /\ NoHandler

\* the tabs and on_tab_change (src 291-299, 578-582)
on_tab_change ==
    /\ tab' = 1 - tab
    /\ UNCHANGED <<dd_format, edits, tf_sample_name, tf_biomass, tf_producer, tf_reactor,
                   tf_prod_date, tf_pyroC, tf_res_min, tf_notes_bc,
                   tf_bm_name, tf_origin, tf_coll_date, tf_notes_bm>>
    /\ NoHandler

\* dd_format (src 302-307)
format_selected ==
    /\ \E value \in FormatChoices \ {dd_format} : dd_format' = value
    /\ UNCHANGED <<tab, edits, tf_sample_name, tf_biomass, tf_producer, tf_reactor,
                   tf_prod_date, tf_pyroC, tf_res_min, tf_notes_bc,
                   tf_bm_name, tf_origin, tf_coll_date, tf_notes_bm>>
    /\ NoHandler

Init == FormInit /\ KeptInit /\ FnIdle
Next ==
    \/ user_types
    \/ date_picked
    \/ on_tab_change
    \/ format_selected
    \/ generate_preview
    \/ save_png
    \/ _save_result
    \/ copy_qr_content
Spec == Init /\ [][Next]_vars

-----------------------------------------------------------------------------
(* The form filled in, and one press of "Gerar previa" *)

F_sample_name == {<<" ">>, <<" ", "w", "o", "o", "d", " ", " ", "a", "s", "h">>, <<"b", "i", "o", " ", "C", "H", "A", "R", " ", "s", "a", "m", "p", "l", "e">>, <<"a", "\"", "b", "\\", "c", " ", "U+00E9">>}
F_biomass == {<<>>, <<"p", "i", "n", "e", " ", "B", "A", "R", "K">>}
F_producer == {<<>>, <<"a", "n", "a">>}
F_reactor == {<<"k", "i", "l", "n">>}
\* the date fields are read-only: they hold what a date picker has put there
F_prod_date == {<<>>} \cup PickedDates
F_pyroC == {<<>>, <<"5", "0", "0">>, <<"1", "2", ",", "5", "0">>, <<"a", "b", "c">>, <<"n", "a", "n">>, <<"-", "i", "n", "f">>, <<" ", "7", " ">>, <<"1", ",", "5", ",", "5">>}
F_res_min == {<<"3", "0">>, <<"x">>, <<"-", "0">>}
F_notes == {<<>>, <<"o", "k">>, <<"a", "\"", "b", "\n", "c", "\\">>}
F_bm_name == {<<>>, <<"e", "u", "c", "a", "l", "y", "p", "t", "u", "s", " ", "b", "a", "r", "k">>, <<"U+00E9", "\"", "x">>, <<"U+00DF", "a">>}
F_origin == {<<>>, <<"f", "a", "r", "m", " ", "A">>}
F_coll_date == {<<>>} \cup PickedDates

FormFilled ==
    /\ KeptInit /\ FnIdle
    /\ edits = 0
    /\ dd_format \in FormatChoices
    /\ \/ /\ tab = 0
          /\ tf_sample_name \in F_sample_name /\ tf_biomass \in F_biomass
          /\ tf_producer \in F_producer /\ tf_reactor \in F_reactor
          /\ tf_prod_date \in F_prod_date /\ tf_pyroC \in F_pyroC
          /\ tf_res_min \in F_res_min /\ tf_notes_bc \in F_notes
          /\ tf_bm_name = <<>> /\ tf_origin = <<>> /\ tf_coll_date = <<>> /\ tf_notes_bm = <<>>
       \/ /\ tab = 1
          /\ tf_bm_name \in F_bm_name /\ tf_origin \in F_origin
          /\ tf_coll_date \in F_coll_date /\ tf_notes_bm \in F_notes
          /\ tf_sample_name = <<>> /\ tf_biomass = <<>> /\ tf_producer = <<>> /\ tf_reactor = <<>>
          /\ tf_prod_date = <<>> /\ tf_pyroC = <<>> /\ tf_res_min = <<>> /\ tf_notes_bc = <<>>

SpecForm == FormFilled /\ [][generate_preview]_vars

-----------------------------------------------------------------------------
(* Generation with a required field empty, and with a payload too long for a QR *)

\* a required field of the open tab is empty once trimmed
RequiredFieldEmpty ==
    IF tab = 0 THEN Trimmed(tf_sample_name) = <<>>
    ELSE Trimmed(tf_bm_name) = <<>> \/ Trimmed(tf_origin) = <<>>

\* C1: generate_preview with a required field empty after trimming shows the notice of
\* the open tab and produces nothing: the stored image bytes, the stored file name and
\* the displayed QR content are what they were, whichever the tab and the format.
C1_ValidationAborts ==
    [][(RequiredFieldEmpty /\ generate_preview) =>
          /\ snack_bar' = snack(IF tab = 0 THEN MSG_BIOCHAR_REQUIRED ELSE MSG_BIOMASS_REQUIRED, FALSE, FALSE)
          /\ raised' = None
          /\ current_png_bytes' = current_png_bytes
          /\ current_png_name' = current_png_name
          /\ qr_content_out' = qr_content_out]_vars

\* a label of a biochar sample is kept while its sample name, typed over with a blank,
\* has been emptied by a generation that showed the notice
C1_Witness ==
    /\ tab = 0 /\ tf_sample_name = <<>> /\ tf_bm_name = <<>> /\ tf_origin = <<>>
    /\ snack_bar = snack(MSG_BIOCHAR_REQUIRED, FALSE, FALSE)
    /\ ~IsNone(current_png_bytes)
    /\ qr_content_out # <<>>
    /\ current_png_name # LABEL_PNG

\* the payload of the open tab has more bytes than any QR symbol holds
EncodingFails == \E fp_loss \in FpLoss : Generate(fp_loss).raised = "DataOverflowError"

\* C2 as stated: when the payload fits no QR symbol, generate_preview handles the
\* encoding error (no exception leaves the handler), shows the user a notice and
\* produces no label.
C2_AsStated ==
    [][(generate_preview /\ EncodingFails) =>
          /\ raised' = None
          /\ ~IsNone(snack_bar')
          /\ current_png_bytes' = current_png_bytes]_vars

-----------------------------------------------------------------------------
(* Reading a JSON text (RFC 8259) that is one flat object of strings and numbers *)

JsonFail == [ok |-> FALSE]

RECURSIVE SkipWs(_, _)
SkipWs(s, i) == IF i <= Len(s) /\ IsSpace(s[i]) THEN SkipWs(s, i + 1) ELSE i

\* the characters of a string up to its closing quote, from place i inside it
RECURSIVE ReadChars(_, _, _)
ReadChars(s, i, acc) ==
    IF i > Len(s) THEN JsonFail
    ELSE IF s[i] = "\"" THEN [ok |-> TRUE, v |-> acc, next |-> i + 1]
    ELSE IF s[i] = "\n" \/ s[i] = "\t" THEN JsonFail
    ELSE IF s[i] # "\\" THEN ReadChars(s, i + 1, Append(acc, s[i]))
    ELSE IF i + 1 > Len(s) THEN JsonFail
    ELSE IF s[i + 1] \in {"\"", "\\", "/"} THEN ReadChars(s, i + 2, Append(acc, s[i + 1]))
    ELSE IF s[i + 1] = "n" THEN ReadChars(s, i + 2, Append(acc, "\n"))
    ELSE IF s[i + 1] = "t" THEN ReadChars(s, i + 2, Append(acc, "\t"))
    ELSE JsonFail

ReadString(s, i) ==
    IF i <= Len(s) /\ s[i] = "\"" THEN ReadChars(s, i + 1, <<>>) ELSE JsonFail

\* a number is -?(0|[1-9][0-9]*)(.[0-9]+)?; its value is kept as a float is
RECURSIVE NumberEnd(_, _)
NumberEnd(s, i) ==
    IF i <= Len(s) /\ (IsDigit(s[i]) \/ s[i] \in {"-", "+", ".", "e", "E"}) THEN NumberEnd(s, i + 1) ELSE i
JsonInt(d) == d # <<>> /\ AllDigits(d) /\ (Len(d) = 1 \/ d[1] # "0")
ReadNumber(s, i) ==
    LET e == NumberEnd(s, i)
        tok == SubSeq(s, i, e - 1)
        neg == tok # <<>> /\ tok[1] = "-"
        body == IF neg THEN Tail(tok) ELSE tok
        dots == {k \in 1..Len(body) : body[k] = "."}
        d == IF dots = {} THEN Len(body) + 1 ELSE SetMin(dots)
        ip == SubSeq(body, 1, d - 1)
        fp == SubSeq(body, d + 1, Len(body))
    IN  IF JsonInt(ip) /\ (dots = {} \/ (fp # <<>> /\ AllDigits(fp)))
        THEN [ok |-> TRUE, next |-> e,
              v |-> [t |-> "float",
                     v |-> [kind |-> "num", neg |-> neg, int |-> ip,
                            frac |-> IF dots = {} THEN <<"0">> ELSE FracDigits(fp)]]]
        ELSE JsonFail

\* a value: a string or a number.  NaN and Infinity are no JSON values; true, false,
\* null, arrays and objects are, but no payload holds one.
ReadValue(s, i) ==
    IF i > Len(s) THEN JsonFail
    ELSE IF s[i] = "\""
         THEN LET r == ReadString(s, i)
              IN  IF r.ok THEN [ok |-> TRUE, next |-> r.next, v |-> [t |-> "str", v |-> r.v]] ELSE JsonFail
    ELSE IF s[i] = "-" \/ IsDigit(s[i]) THEN ReadNumber(s, i)
    ELSE JsonFail

\* the members from the key at place i on, up to the closing brace and the end
RECURSIVE ReadMembers(_, _, _)
ReadMember(s, k, acc) ==
    LET c == SkipWs(s, k.next)
        v == ReadValue(s, SkipWs(s, c + 1))
        d == SkipWs(s, v.next)
    IN  IF c > Len(s) \/ s[c] # ":" THEN JsonFail
        ELSE IF ~v.ok THEN JsonFail
        ELSE IF d > Len(s) THEN JsonFail
        ELSE IF s[d] = "," THEN ReadMembers(s, SkipWs(s, d + 1), Append(acc, <<k.v, v.v>>))
        ELSE IF s[d] = "}" /\ SkipWs(s, d + 1) > Len(s) THEN [ok |-> TRUE, obj |-> Append(acc, <<k.v, v.v>>)]
        ELSE JsonFail
ReadMembers(s, i, acc) ==
    LET k == ReadString(s, i)
    IN  IF k.ok THEN ReadMember(s, k, acc) ELSE JsonFail

JsonLoads(s) ==
    LET i == SkipWs(s, 1)
        j == SkipWs(s, i + 1)
    IN  IF i > Len(s) \/ s[i] # "{" THEN JsonFail
        ELSE IF j <= Len(s) /\ s[j] = "}" /\ SkipWs(s, j + 1) > Len(s) THEN [ok |-> TRUE, obj |-> <<>>]
        ELSE ReadMembers(s, j, <<>>)

Keys(obj) == {obj[i][1] : i \in 1..Len(obj)}
\* the value of a key: that of its last member
Get(obj, key) == obj[SetMax({i \in 1..Len(obj) : obj[i][1] = key})]
IsStr(v) == v.t = "str"
IsNum(v, x) == v.t = "float" /\ v.v = x

-----------------------------------------------------------------------------
(* The payloads of a valid record *)

\* the object read from the payload of a biochar record typed as the form was
BiocharObject(obj) ==
    /\ Keys(obj) = {K_kind, K_schema, K_sample_name, K_producer, K_biomass, K_reactor_type,
                    K_pyro_temp_C, K_residence_time_min, K_production_date, K_notes}
    /\ Len(obj) = 10
    /\ IsStr(Get(obj, K_kind)[2]) /\ Get(obj, K_kind)[2].v = <<"b", "i", "o", "c", "h", "a", "r">>
    /\ IsStr(Get(obj, K_schema)[2]) /\ Get(obj, K_schema)[2].v = <<"a", "r", "r", "a", "k", "i", "s", ".", "l", "a", "b", ".", "q", "r", "l", "a", "b", "e", "l", ".", "v", "2">>
    /\ IsStr(Get(obj, K_sample_name)[2]) /\ IsTitleCaseOf(tf_sample_name, Get(obj, K_sample_name)[2].v)
    /\ IsStr(Get(obj, K_producer)[2]) /\ IsTitleCaseOf(tf_producer, Get(obj, K_producer)[2].v)
    /\ IsStr(Get(obj, K_biomass)[2]) /\ IsTitleCaseOf(tf_biomass, Get(obj, K_biomass)[2].v)
    /\ IsStr(Get(obj, K_reactor_type)[2]) /\ IsTitleCaseOf(tf_reactor, Get(obj, K_reactor_type)[2].v)
    /\ IsNum(Get(obj, K_pyro_temp_C)[2], NumberField(tf_pyroC))
    /\ IsNum(Get(obj, K_residence_time_min)[2], NumberField(tf_res_min))
    /\ IsStr(Get(obj, K_production_date)[2]) /\ DateRule(Trimmed(tf_prod_date), Get(obj, K_production_date)[2].v)
    /\ IsStr(Get(obj, K_notes)[2]) /\ Get(obj, K_notes)[2].v = tf_notes_bc

BiomassObject(obj) ==
    /\ Keys(obj) = {K_kind, K_schema, K_biomass_name, K_origin, K_collection_date, K_notes}
    /\ Len(obj) = 6
    /\ IsStr(Get(obj, K_kind)[2]) /\ Get(obj, K_kind)[2].v = <<"b", "i", "o", "m", "a", "s", "s">>
    /\ IsStr(Get(obj, K_schema)[2]) /\ Get(obj, K_schema)[2].v = <<"a", "r", "r", "a", "k", "i", "s", ".", "l", "a", "b", ".", "q", "r", "l", "a", "b", "e", "l", ".", "v", "2">>
    /\ IsStr(Get(obj, K_biomass_name)[2]) /\ IsTitleCaseOf(tf_bm_name, Get(obj, K_biomass_name)[2].v)
    /\ IsStr(Get(obj, K_origin)[2]) /\ IsTitleCaseOf(tf_origin, Get(obj, K_origin)[2].v)
    /\ IsStr(Get(obj, K_collection_date)[2]) /\ DateRule(Trimmed(tf_coll_date), Get(obj, K_collection_date)[2].v)
    /\ IsStr(Get(obj, K_notes)[2]) /\ Get(obj, K_notes)[2].v = tf_notes_bm

\* C3 as stated: for every valid record of either kind the STRUCTURED payload is a JSON
\* text, and reading it gives an object with the schema arrakis.lab.qrlabel.v2, the kind
\* of the record and every field at its normalized value (title-cased text, ISO date,
\* numbers as entered), the date and notes keys present even when empty.
C3_AsStated ==
    [][(dd_format = "json" /\ ~RequiredFieldEmpty /\ generate_preview) =>
          \E read \in {JsonLoads(qr_content_out')} :
              /\ read.ok
              /\ IF tab = 0 THEN BiocharObject(read.obj) ELSE BiomassObject(read.obj)]_vars

\* s without its first n characters
Drop(s, n) == SubSeq(s, n + 1, Len(s))
StartsWith(s, prefix) == Len(s) >= Len(prefix) /\ SubSeq(s, 1, Len(prefix)) = prefix
Contains(s, part) == \E i \in 1..(Len(s) - Len(part) + 1) : SubSeq(s, i, i + Len(part) - 1) = part
Count(b) == IF b THEN 1 ELSE 0

\* the lines of a READABLE payload: the fixed ones, then the date if there is one, then
\* the notes if there are any (notes of several lines go on for as many lines)
ReadableLines(ls, fixed, date_label, date_typed, notes) ==
    LET n == Len(fixed)
        dated == Trimmed(date_typed) # <<>>
    IN  /\ Len(ls) >= n + Count(dated) + Count(notes # <<>>)
        /\ \A i \in 1..n : ls[i] = fixed[i]
        /\ dated => /\ StartsWith(ls[n + 1], date_label)
                    /\ DateRule(Trimmed(date_typed), Drop(ls[n + 1], Len(date_label)))
        /\ notes = <<>> => Len(ls) = n + Count(dated)
        /\ notes # <<>> => SubSeq(ls, n + Count(dated) + 1, Len(ls)) = StrSplitLines(<<"N", "o", "t", "a", "s", ":", " ">> \o notes)

NoNumber == {<<>>, <<"a", "b", "c">>, <<"x">>, <<"1", ",", "5", ",", "5">>}
\* the payload carries the number zero for the field of this key and label
CarriesZero(payload, format, key, label, line) ==
    IF format = "json"
    THEN Contains(payload, <<"\"">> \o key \o <<"\"", ":", " ", "0", ".", "0", ",">>)
    ELSE StrSplitLines(payload)[line] = label \o <<"0", ".", "0">>

\* C8: whatever is typed as pyrolysis temperature or residence time, generation of a
\* biochar record with a sample name goes through: nothing is raised, no notice is
\* shown, the payload and the label of that payload are produced, and a text that is
\* no number (or empty) counts as 0.
C8_NumbersNeverAbort ==
    [][(tab = 0 /\ ~RequiredFieldEmpty /\ generate_preview) =>
          /\ raised' = None
          /\ snack_bar' = snack_bar
          /\ qr_content_out' # <<>>
          /\ ~IsNone(current_png_bytes')
          /\ current_png_bytes'.img.qr_data = qr_content_out'
          /\ tf_pyroC \in NoNumber =>
                CarriesZero(qr_content_out', dd_format, K_pyro_temp_C, <<"T", "e", "m", "p", "e", "r", "a", "t", "u", "r", "a", " ", "d", "e", " ", "p", "i", "r", "U+00F3", "l", "i", "s", "e", " ", "(", "U+00B0", "C", ")", ":", " ">>, 5)
          /\ tf_res_min \in NoNumber =>
                CarriesZero(qr_content_out', dd_format, K_residence_time_min, <<"T", "e", "m", "p", "o", " ", "d", "e", " ", "r", "e", "s", "i", "d", "U+00EA", "n", "c", "i", "a", " ", "(", "m", "i", "n", ")", ":", " ">>, 6)]_vars

\* a label has been made of a record whose temperature and time are no numbers
C8_Witness ==
    /\ tab = 0 /\ dd_format = "json"
    /\ tf_pyroC = <<"a", "b", "c">> /\ tf_res_min = <<"x">>
    /\ raised = None /\ IsNone(snack_bar)
    /\ ~IsNone(current_png_bytes)
    /\ Contains(qr_content_out, <<"\"", "p", "y", "r", "o", "_", "t", "e", "m", "p", "_", "C", "\"", ":", " ", "0", ".", "0", ",", " ", "\"", "r", "e", "s", "i", "d", "e", "n", "c", "e", "_", "t", "i", "m", "e", "_", "m", "i", "n", "\"", ":", " ", "0", ".", "0", ",">>)

-----------------------------------------------------------------------------
(* What the page keeps of a generation: the image, its file name, its content *)

\* the title as printed on a label: its lines, read top to bottom
PrintedTitle(img) == StrJoin(<<" ">>, [i \in 1..Len(img.title) |-> img.title[i].text])

\* the file name is the one of a label with this printed title: the left title,
\* which ends the printed title or is followed by " | ", with "_" for each space
\* and "_label.png" after it
NamedAfter(name, printed) ==
    \E k \in 1..Len(printed) :
        /\ k = Len(printed) \/ (k + 3 <= Len(printed) /\ SubSeq(printed, k + 1, k + 3) = <<" ", "|", " ">>)
        /\ Len(name) = k + 10
        /\ \A i \in 1..k : name[i] = IF printed[i] = " " THEN "_" ELSE printed[i]
        /\ SubSeq(name, k + 1, k + 10) = <<"_", "l", "a", "b", "e", "l", ".", "p", "n", "g">>

\* C11 as stated: after any sequence of generate, save, copy, tab-switch and form-edit
\* steps, failed generations included, the stored image bytes, the stored file name and
\* the displayed QR content come from one generation: while no image is stored the name
\* is still "label.png" and no content is shown, and once an image is stored the content
\* shown is the one in its QR and the file name is the one of its title.
C11_AsStated ==
    IF IsNone(current_png_bytes)
    THEN current_png_name = <<"l", "a", "b", "e", "l", ".", "p", "n", "g">> /\ qr_content_out = <<>>
    ELSE /\ current_png_bytes.img.qr_data = qr_content_out
         /\ NamedAfter(current_png_name, PrintedTitle(current_png_bytes.img))

-----------------------------------------------------------------------------
(* The title printed on a label and the names its payload carries *)

\* the payload carries value for the field of this key and label: in a STRUCTURED
\* payload as the string after the key, in a READABLE one as the rest of the line of
\* the label
Carries(payload, format, key, label, line, value) ==
    IF format = "json"
    THEN \E i \in 1..Len(payload) :
            /\ StartsWith(Drop(payload, i - 1), <<"\"">> \o key \o <<"\"", ":", " ">>)
            /\ \E r \in {ReadString(payload, i + Len(key) + 4)} : r.ok /\ r.v = value
    ELSE StrSplitLines(payload)[line] = label \o value

\* the printed title is left alone, or left and right with " | " between them
TitleOf(printed, left, right) ==
    printed = IF right = <<>> THEN left ELSE left \o <<" ", "|", " ">> \o right

\* the left and right titles a printed title may be made of
TitleParts(printed) ==
    {<<printed, <<>> >>} \cup
    {<<SubSeq(printed, 1, k), Drop(printed, k + 3)>> :
        k \in {j \in 1..(Len(printed) - 3) : SubSeq(printed, j + 1, j + 3) = <<" ", "|", " ">>}}

\* C12 as stated: in every successful generation the title printed on the label agrees
\* with the payload: the left title is the sample name (biochar) or biomass name
\* (biomass) the payload carries and the right title is the biomass or origin it
\* carries, title-casing an already title-cased, trimmed value leaving it unchanged.
C12_AsStated ==
    [][(~RequiredFieldEmpty /\ generate_preview /\ raised' = None) =>
          \E parts \in TitleParts(PrintedTitle(current_png_bytes'.img)) :
              IF tab = 0
              THEN /\ Carries(qr_content_out', dd_format, <<"s", "a", "m", "p", "l", "e", "_", "n", "a", "m", "e">>,
                              <<"N", "o", "m", "e", " ", "d", "a", " ", "a", "m", "o", "s", "t", "r", "a", ":", " ">>, 1, parts[1])
                   /\ Carries(qr_content_out', dd_format, <<"b", "i", "o", "m", "a", "s", "s">>,
                              <<"B", "i", "o", "m", "a", "s", "s", "a", ":", " ">>, 2, parts[2])
              ELSE /\ Carries(qr_content_out', dd_format, <<"b", "i", "o", "m", "a", "s", "s", "_", "n", "a", "m", "e">>,
                              <<"N", "o", "m", "e", " ", "d", "a", " ", "b", "i", "o", "m", "a", "s", "s", "a", ":", " ">>, 1, parts[1])
                   /\ Carries(qr_content_out', dd_format, <<"o", "r", "i", "g", "i", "n">>,
                              <<"O", "r", "i", "g", "e", "m", ":", " ">>, 2, parts[2])]_vars

====
